---- MODULE Spec2Model ----
(***************************************************************************)
(* The discrete-event cluster simulator (ClusterSimulation, its Dispatcher *)
(* and event queue, Job) as a state machine.  Times are milliseconds.  The *)
(* default-constructed time point ms{} is 0.                               *)
(***************************************************************************)
EXTENDS Integers, Sequences, FiniteSets, TLC

\* ------------------------------------------------------------------ bounds
MaxJobs == 3
MaxApiCalls == 2
\* run() is followed up to this time.
MaxTime == 32000
\* A job is followed through this many set_pending calls.
MaxPendCalls == 3
\* Worker threads of the fitness evaluation, each running one engine, and the
\* events one engine creates.
NumWorkers == 2
MaxEventsPerEngine == 3
\* The GA driver: configured iterations up to MaxIterations, at most
\* MaxMutants mutants in a generation.
MaxIterations == 2
MaxMutants == 1

\* ------------------------------------------------------- program constants
DISPATCH_FREQUENCY == 1000
LOGGING_FREQUENCY == 10000
COUNTING_FREQUENCY == 10000

\* The GA driver's compile-time configuration.
NUM_POPULATION_TO_KEEP == 2
NUM_OFFSPRING == 1
SAVE_INTERVAL == 2

\* Length of a chromosome's gene vector.
GeneCount == 2

\* A chromosome's fitness cache is empty.
NoFitness == -1

\* The Dispatcher keeps 0 in latest_cluster_version_ for "no version seen";
\* a constructed Cluster publishes a version different from it.
InitialClusterVersion == 1

\* ------------------------------------------------------------ input spaces
SubmitTimes == {0, 2500}

JobShapes ==
  { [slot_required |-> 1, mem_required |-> 1,  cpu_time |-> 1000],
    [slot_required |-> 1, mem_required |-> 1,  cpu_time |-> 5000],
    [slot_required |-> 8, mem_required |-> 1,  cpu_time |-> 1000],
    [slot_required |-> 1, mem_required |-> 32, cpu_time |-> 1000],
    [slot_required |-> 2, mem_required |-> 1,  cpu_time |-> 0] }

ScenarioEntries ==
  { [submit_time |-> t, slot_required |-> sh.slot_required,
     mem_required |-> sh.mem_required, cpu_time |-> sh.cpu_time] :
      t \in SubmitTimes, sh \in JobShapes }

Clusters ==
  { << [total_slots |-> 4, total_mem |-> 16] >>,
    << [total_slots |-> 1, total_mem |-> 16] >>,
    << [total_slots |-> 2, total_mem |-> 16], [total_slots |-> 1, total_mem |-> 16] >> }

\* A scenario is non-decreasing by submit_time.
Scenarios ==
  { s \in UNION { [1..n -> ScenarioEntries] : n \in 1..MaxJobs } :
      \A i \in 1..(Len(s) - 1) : s[i].submit_time <= s[i + 1].submit_time }

Delays == {0, 1000}

\* Times handed to set_pending and update_total_pending_duration.
PendTimes == {0, 1000, 2500}

VARIABLES
  current_time,            \* ClusterSimulation::current_time_
  events,                  \* ClusterSimulation::events_ (set of EventItem)
  id_gen_,                 \* EventItem::id_gen_
  popped,                  \* the EventItem run() popped last (NoEvent before)
  next_dispatch_reserved,  \* ClusterSimulation::next_dispatch_reserved
  latest_cluster_version_, \* Dispatcher::latest_cluster_version_
  cluster_version,         \* Cluster version counter
  hosts,                   \* cluster_: sequence of Host
  scenario,                \* the scenario's entries
  scenario_count,          \* Scenario::count()
  jobs,                    \* the Job of every scenario entry
  pending,                 \* pending jobs of the default queue, in arrival order
  num_submitted_jobs_,
  num_successful_jobs_,
  num_failed_jobs_,
  num_pending_jobs_,
  num_dispatched_slots,
  using_slot_record_,      \* time -> slots in use, as a set of << time, slots >>
  pending_record_,         \* sequence of << time, num_pending_jobs_ >>
  terminated,              \* run() has reported the end of the simulation
  api_calls                \* number of direct event-queue calls made so far

\* One Job driven directly through its public members.
VARIABLES
  the_job,                 \* the Job
  pend_calls,              \* the times passed to set_pending so far, in order
  update_time              \* the time update_total_pending_duration was given
                           \* since the last set_pending, -1 if none

\* Engines on worker threads creating EventItems.  The shared counter is
\* id_gen_ above: it is a static member, one per process.
VARIABLES
  worker_pc,               \* per worker: "idle", or "loaded" inside id_gen_++
  worker_id,               \* per worker: the value of id_gen_ it has loaded
  worker_events            \* per worker: the events_ of its engine

\* The GA driver (main).
VARIABLES
  ga_pc,                   \* position in main
  num_iterations,          \* the configured NUM_ITERATIONS
  population_file,         \* the --population option: whether it is given,
                           \* and the chromosomes load_population returns
  population,              \* Population (fixed size)
  offspring,               \* Offspring (fixed size)
  mutants,                 \* std::vector<Chromosome> mutants
  current_best,            \* Chromosome* current_best: an index into
                           \* population, 0 while indeterminate
  iter,                    \* the loop variable
  output_buffer,           \* (iter, best fitness) per epoch
  console,                 \* lines written to std::cout
  exit_code,               \* -1 while main runs
  files                    \* the files written, as << name, content >>

\* Every variable of the engine.
sim_vars == << current_time, events, id_gen_, popped, next_dispatch_reserved,
               latest_cluster_version_, cluster_version, hosts, scenario,
               scenario_count, jobs, pending, num_submitted_jobs_,
               num_successful_jobs_, num_failed_jobs_, num_pending_jobs_,
               num_dispatched_slots, using_slot_record_, pending_record_,
               terminated, api_calls >>

job_vars == << the_job, pend_calls, update_time >>
ids_vars == << worker_pc, worker_id, worker_events >>
ga_vars == << ga_pc, num_iterations, population_file, population, offspring,
              mutants, current_best, iter, output_buffer, console, exit_code,
              files >>

\* What the engine never touches.
aux_vars == << job_vars, ids_vars, ga_vars >>

vars == << sim_vars, aux_vars >>

engine_vars == << next_dispatch_reserved, latest_cluster_version_,
                  cluster_version, hosts, scenario, scenario_count, jobs,
                  pending, num_submitted_jobs_, num_successful_jobs_,
                  num_failed_jobs_, num_pending_jobs_, num_dispatched_slots,
                  using_slot_record_, pending_record_, terminated >>

NoEvent == [id |-> -1, time |-> 0, priority |-> 0, type |-> "NONE", job |-> 0]

\* ------------------------------------------------------------- EventItem
EventItem(id, time, priority, type, job) ==
  [id |-> id, time |-> time, priority |-> priority, type |-> type, job |-> job]

\* EventItem::operator< : Less(x, a) is x < a.
Less(x, a) ==
  IF a.time = x.time THEN a.priority < x.priority ELSE a.time < x.time

\* The events pop may return: the greatest under operator< (the top of a
\* priority queue ordered by it).  Events equal in time and priority are
\* returned in an order the container chooses.
Top(ev) == { e \in ev : \A x \in ev : ~Less(e, x) }

\* after_delay taking the delay for the event's time.
AfterDelayNoClock(ev, idg, now, delay, priority, type, job) ==
  [events |-> ev \cup { EventItem(idg, delay, priority, type, job) },
   id_gen |-> idg + 1,
   id     |-> idg]

\* ClusterSimulation::after_delay
AfterDelay(ev, idg, now, delay, priority, type, job) ==
  [events |-> ev \cup { EventItem(idg, now + delay, priority, type, job) },
   id_gen |-> idg + 1,
   id     |-> idg]

\* erase_event taking the end iterator of a failed search for the last event.
EraseEventAtEnd(ev, event_id) ==
  IF \A e \in ev : e.id # event_id
  THEN { e \in ev : \E x \in ev : x.id > e.id }
  ELSE { e \in ev : e.id # event_id }

\* ClusterSimulation::erase_event
EraseEvent(ev, event_id) ==
  IF \A e \in ev : e.id # event_id THEN ev
  ELSE { e \in ev : e.id # event_id }

\* ClusterSimulation::add_delay
AddDelay(ev, event_id, delay) ==
  { IF e.id = event_id THEN [e EXCEPT !.time = e.time + delay] ELSE e : e \in ev }

\* ------------------------------------------------------------------- Job
NewJob(entry) ==
  [slot_required |-> entry.slot_required, mem_required |-> entry.mem_required,
   submit_time |-> entry.submit_time, cpu_time |-> entry.cpu_time,
   state |-> "WAIT", start_time |-> 0, finish_time |-> 0,
   pend_start_time_ |-> 0, total_pending_duration |-> 0, run_host |-> 0]

\* set_pending writing the wrong JobState.
SetPendingAsRun(job, time) ==
  [job EXCEPT !.state = "RUN",
              !.pend_start_time_ = IF job.pend_start_time_ = 0 THEN time
                                   ELSE job.pend_start_time_]

\* Job::set_pending
SetPending(job, time) ==
  [job EXCEPT !.state = "PEND",
              !.pend_start_time_ = IF job.pend_start_time_ = 0 THEN time
                                   ELSE job.pend_start_time_]

\* Job::update_total_pending_duration
UpdateTotalPendingDuration(job, now) ==
  [job EXCEPT !.total_pending_duration = now - job.pend_start_time_]

\* increment_failed_jobs losing the increment.
IncrementFailedJobsLost(n) == n

\* ClusterSimulation::increment_failed_jobs
IncrementFailedJobs(n) == n + 1

\* ------------------------------------------------------------------ Host
NewHost(h) ==
  [total_slots |-> h.total_slots, total_mem |-> h.total_mem,
   free_slots |-> h.total_slots, free_mem |-> h.total_mem]

\* Host::is_eligible with USE_STATIC_HOST_TABLE_FOR_JOBS: capacity, not free.
IsEligible(h, job) ==
  h.total_slots >= job.slot_required /\ h.total_mem >= job.mem_required

\* Host::try_allocate: the test.
CanAllocate(h, job) ==
  h.free_slots >= job.slot_required /\ h.free_mem >= job.mem_required

\* Host::try_allocate: the commit.
Allocate(h, job) ==
  [h EXCEPT !.free_slots = h.free_slots - job.slot_required,
            !.free_mem = h.free_mem - job.mem_required]

\* release giving back the slots but not the memory.
ReleaseSlotsOnly(h, job) ==
  [h EXCEPT !.free_slots = h.free_slots + job.slot_required]

\* Host::release
Release(h, job) ==
  [h EXCEPT !.free_slots = h.free_slots + job.slot_required,
            !.free_mem = h.free_mem + job.mem_required]

\* Host::expected_run_time with cpu_factor 1 and no non-cpu time.
ExpectedRunTime(job) == job.cpu_time

\* Job::get_eligible_hosts: indices in cluster insertion order.
EligibleHosts(hs, job) == { i \in 1..Len(hs) : IsEligible(hs[i], job) }

\* OLB match: the eligible host with room that has the most free slots, the
\* first in cluster order among equals; 0 when none has room.
MatchHost(hs, job) ==
  LET room == { i \in EligibleHosts(hs, job) : CanAllocate(hs[i], job) }
  IN IF room = {} THEN 0
     ELSE CHOOSE i \in room :
            \A k \in room : \/ hs[k].free_slots < hs[i].free_slots
                            \/ (hs[k].free_slots = hs[i].free_slots /\ i <= k)

\* ----------------------------------------------------------- engine state
\* The engine's fields as one record, so that the handlers below are
\* functions from state to state.
EngineState ==
  [events |-> events, id_gen |-> id_gen_, reserved |-> next_dispatch_reserved,
   latest |-> latest_cluster_version_, version |-> cluster_version,
   hosts |-> hosts, count |-> scenario_count, jobs |-> jobs,
   pending |-> pending, submitted |-> num_submitted_jobs_,
   successful |-> num_successful_jobs_, failed |-> num_failed_jobs_,
   npending |-> num_pending_jobs_, dslots |-> num_dispatched_slots,
   slot_record |-> using_slot_record_, pending_record |-> pending_record_]

Install(S) ==
  /\ events' = S.events
  /\ id_gen_' = S.id_gen
  /\ next_dispatch_reserved' = S.reserved
  /\ latest_cluster_version_' = S.latest
  /\ cluster_version' = S.version
  /\ hosts' = S.hosts
  /\ scenario_count' = S.count
  /\ jobs' = S.jobs
  /\ pending' = S.pending
  /\ num_submitted_jobs_' = S.submitted
  /\ num_successful_jobs_' = S.successful
  /\ num_failed_jobs_' = S.failed
  /\ num_pending_jobs_' = S.npending
  /\ num_dispatched_slots' = S.dslots
  /\ using_slot_record_' = S.slot_record
  /\ pending_record_' = S.pending_record

\* after_delay on the engine state.
Schedule(S, now, delay, priority, type, job) ==
  LET r == AfterDelay(S.events, S.id_gen, now, delay, priority, type, job)
  IN [S EXCEPT !.events = r.events, !.id_gen = r.id_gen]

\* ClusterSimulation::reserve_dispatch_event
ReserveDispatchEvent(S, now) ==
  IF S.reserved THEN S
  ELSE [Schedule(S, now, DISPATCH_FREQUENCY, 1, "DISPATCH", 0)
          EXCEPT !.reserved = TRUE]

\* ----------------------------------------------------------------- Queue
\* One job of Queue::dispatch.  A job no host is eligible for, or whose
\* estimated run time is not positive, leaves the queue in state EXIT; a job
\* matched to a host starts there; any other job stays pending.
DispatchOne(S, now, j) ==
  LET job == S.jobs[j]
      h   == MatchHost(S.hosts, job)
      started == [UpdateTotalPendingDuration(job, now)
                    EXCEPT !.state = "RUN", !.start_time = now, !.run_host = h]
  IN IF EligibleHosts(S.hosts, job) = {} \/ ExpectedRunTime(job) <= 0
     THEN [S EXCEPT !.jobs[j].state = "EXIT",
                    !.failed = IncrementFailedJobs(S.failed),
                    !.pending = SelectSeq(S.pending, LAMBDA k : k # j)]
     ELSE IF h = 0 THEN S
     ELSE [Schedule(S, now, ExpectedRunTime(job), 2, "JOB_FINISHED", j)
             EXCEPT !.hosts[h] = Allocate(S.hosts[h], job),
                    !.version = S.version + 1,
                    !.jobs[j] = started,
                    !.dslots = S.dslots + job.slot_required,
                    !.pending = SelectSeq(S.pending, LAMBDA k : k # j)]

RECURSIVE DispatchJobs(_, _, _)
DispatchJobs(S, now, todo) ==
  IF todo = << >> THEN S
  ELSE DispatchJobs(DispatchOne(S, now, Head(todo)), now, Tail(todo))

\* Queue::dispatch: the state after it; its return value is QueuePending.
QueueDispatch(S, now) == DispatchJobs(S, now, S.pending)

\* Queue::get_num_pending_jobs
GetNumPendingJobs(S) == Len(S.pending)

\* The value Queue::dispatch returns: jobs remain pending.
QueuePending(S) == S.pending # << >>

\* ------------------------------------------------------- event handlers
\* The SCENARIO event of entry j: the job is constructed, set pending at the
\* current time and queued; a dispatch is reserved.
ScenarioAction(S, now, j) ==
  ReserveDispatchEvent(
    [S EXCEPT !.jobs[j] = SetPending(S.jobs[j], now),
              !.pending = Append(S.pending, j),
              !.submitted = S.submitted + 1,
              !.count = S.count - 1],
    now)

\* The JOB_FINISHED event of job j.
JobFinishedAction(S, now, j) ==
  LET job == S.jobs[j]
      h   == job.run_host
  IN ReserveDispatchEvent(
       [S EXCEPT !.hosts[h] = Release(S.hosts[h], job),
                 !.version = S.version + 1,
                 !.jobs[j].finish_time = now,
                 !.jobs[j].state = "DONE",
                 !.successful = S.successful + 1,
                 !.dslots = S.dslots - job.slot_required],
       now)

\* ClusterSimulation::log_using_slots
LogUsingSlots(S, now) ==
  [S EXCEPT !.slot_record =
              { r \in @ : r[1] # now } \cup { << now, S.dslots >> },
            !.pending_record = Append(@, << now, S.npending >>)]

\* The Dispatcher logging the slots and the pending count also on a pass that
\* finds the cluster unchanged.
DispatcherLogsSkippedPass(S, now) ==
  LET version == S.version
  IN IF version = S.latest
     THEN LogUsingSlots(
            IF S.count = 0 /\ S.npending = 0
            THEN [S EXCEPT !.reserved = FALSE]
            ELSE Schedule(S, now, DISPATCH_FREQUENCY, 1, "DISPATCH", 0),
            now)
     ELSE LET S1 == QueueDispatch([S EXCEPT !.latest = version], now)
          IN LogUsingSlots(
               IF QueuePending(S1)
               THEN [Schedule(S1, now, DISPATCH_FREQUENCY, 1, "DISPATCH", 0)
                       EXCEPT !.npending = GetNumPendingJobs(S1)]
               ELSE [S1 EXCEPT !.reserved = FALSE, !.latest = 0],
               now)

\* The Dispatcher giving up instead of rescheduling itself when jobs are
\* left pending.
DispatcherDropsPending(S, now) ==
  LET version == S.version
  IN IF version = S.latest
     THEN IF S.count = 0 /\ S.npending = 0
          THEN [S EXCEPT !.reserved = FALSE]
          ELSE Schedule(S, now, DISPATCH_FREQUENCY, 1, "DISPATCH", 0)
     ELSE LET S1 == QueueDispatch([S EXCEPT !.latest = version], now)
          IN LogUsingSlots(
               IF QueuePending(S1)
               THEN [S1 EXCEPT !.reserved = FALSE,
                               !.npending = GetNumPendingJobs(S1)]
               ELSE [S1 EXCEPT !.reserved = FALSE, !.latest = 0],
               now)

\* The Dispatcher taking a cluster it has not observed yet (latest version 0)
\* for an unchanged one.
DispatcherSkipsUnseen(S, now) ==
  LET version == S.version
  IN IF version = S.latest \/ S.latest = 0
     THEN IF S.count = 0 /\ S.npending = 0
          THEN [S EXCEPT !.reserved = FALSE]
          ELSE Schedule(S, now, DISPATCH_FREQUENCY, 1, "DISPATCH", 0)
     ELSE LET S1 == QueueDispatch([S EXCEPT !.latest = version], now)
          IN LogUsingSlots(
               IF QueuePending(S1)
               THEN [Schedule(S1, now, DISPATCH_FREQUENCY, 1, "DISPATCH", 0)
                       EXCEPT !.npending = GetNumPendingJobs(S1)]
               ELSE [S1 EXCEPT !.reserved = FALSE, !.latest = 0],
               now)

\* The Dispatcher leaving next_dispatch_reserved set when no job is pending.
DispatcherKeepsFlag(S, now) ==
  LET version == S.version
  IN IF version = S.latest
     THEN IF S.count = 0 /\ S.npending = 0
          THEN [S EXCEPT !.reserved = FALSE]
          ELSE Schedule(S, now, DISPATCH_FREQUENCY, 1, "DISPATCH", 0)
     ELSE LET S1 == QueueDispatch([S EXCEPT !.latest = version], now)
          IN LogUsingSlots(
               IF QueuePending(S1)
               THEN [Schedule(S1, now, DISPATCH_FREQUENCY, 1, "DISPATCH", 0)
                       EXCEPT !.npending = GetNumPendingJobs(S1)]
               ELSE [S1 EXCEPT !.latest = 0],
               now)

\* ClusterSimulation::Dispatcher::operator()
Dispatcher(S, now) ==
  LET version == S.version
  IN IF version = S.latest
     THEN IF S.count = 0 /\ S.npending = 0
          THEN [S EXCEPT !.reserved = FALSE]
          ELSE Schedule(S, now, DISPATCH_FREQUENCY, 1, "DISPATCH", 0)
     ELSE LET S1 == QueueDispatch([S EXCEPT !.latest = version], now)
          IN LogUsingSlots(
               IF QueuePending(S1)
               THEN [Schedule(S1, now, DISPATCH_FREQUENCY, 1, "DISPATCH", 0)
                       EXCEPT !.npending = GetNumPendingJobs(S1)]
               ELSE [S1 EXCEPT !.reserved = FALSE, !.latest = 0],
               now)

\* The periodic LOG and count_new_jobs_ events: they touch no engine state
\* and are scheduled again while other work is queued.
LogAction(S, now, period) ==
  IF \E x \in S.events : x.type # "LOG"
  THEN Schedule(S, now, period, 0, "LOG", 0)
  ELSE S

\* ------------------------------------------------------------ Chromosome
\* A gene vector: GeneCount binary policy parameters.
Genes == [1..GeneCount -> {0, 1}]

\* A new chromosome: age 0, nothing cached.
Chromosome(g) == [genes |-> g, age |-> 0, fitness |-> NoFitness]

\* The objective of a full simulation under the decoded policy: here the
\* number of parameters switched on, so that different chromosomes can tie.
RECURSIVE Objective(_, _)
Objective(g, k) == IF k = 0 THEN 0 ELSE g[k] + Objective(g, k - 1)

\* Chromosome::fitness: the cached value, computed on first use.
Fitness(c) ==
  IF c.fitness # NoFitness THEN c.fitness ELSE Objective(c.genes, GeneCount)

\* calculate_fitness_parallel: every chromosome's cache is filled.
CalculateFitnessParallel(cs) ==
  [i \in DOMAIN cs |-> [cs[i] EXCEPT !.fitness = Fitness(cs[i])]]

\* Chromosome::crossover (uniform): every gene comes from one of the parents.
Crossover(a, b) ==
  { Chromosome(g) :
      g \in { h \in Genes : \A k \in 1..GeneCount :
                               h[k] \in {a.genes[k], b.genes[k]} } }

\* generate_offspring_parallel: NUM_OFFSPRING children of parents picked
\* from the population.
GenerateOffspring(pop) ==
  [1..NUM_OFFSPRING ->
     UNION { Crossover(pop[i], pop[j]) : i, j \in DOMAIN pop }]

\* Chromosome::mutate: a perturbed copy.
Mutate(c) == { Chromosome(g) : g \in Genes \ {c.genes} }

\* get_mutants on the population and then the offspring: mutated copies of
\* some of their members.
GetMutants(pop, off) ==
  UNION { [1..n -> UNION { Mutate(c) : c \in { (pop \o off)[i] :
                                              i \in 1..Len(pop \o off) } }] :
            n \in 0..MaxMutants }

\* select_survivors taking the survivors from the offspring and the mutants
\* only.
SelectSurvivorsNoElite(pop, off, mut) ==
  LET merged == off \o mut
      Better(i, j) ==
        \/ merged[i].fitness > merged[j].fitness
        \/ /\ merged[i].fitness = merged[j].fitness
           /\ \/ merged[i].age < merged[j].age
              \/ merged[i].age = merged[j].age /\ i < j
      Rank(i) == 1 + Cardinality({ j \in 1..Len(merged) : Better(j, i) })
      n == IF Len(merged) < NUM_POPULATION_TO_KEEP THEN Len(merged)
           ELSE NUM_POPULATION_TO_KEEP
  IN [k \in 1..n |-> merged[CHOOSE i \in 1..Len(merged) : Rank(i) = k]]

\* select_survivors: the three pools merged, the NUM_POPULATION_TO_KEEP
\* best by fitness kept; among equals the younger first, then the one
\* merged earlier.
SelectSurvivors(pop, off, mut) ==
  LET merged == pop \o off \o mut
      Better(i, j) ==
        \/ merged[i].fitness > merged[j].fitness
        \/ /\ merged[i].fitness = merged[j].fitness
           /\ \/ merged[i].age < merged[j].age
              \/ merged[i].age = merged[j].age /\ i < j
      Rank(i) == 1 + Cardinality({ j \in 1..Len(merged) : Better(j, i) })
  IN [k \in 1..NUM_POPULATION_TO_KEEP |->
        merged[CHOOSE i \in 1..Len(merged) : Rank(i) = k]]

\* std::max_element with `a.fitness() < b.fitness()`: the first of the
\* members of greatest fitness.
MaxElement(pop) ==
  CHOOSE i \in 1..Len(pop) :
    \A j \in 1..Len(pop) :
      /\ pop[j].fitness <= pop[i].fitness
      /\ j < i => pop[j].fitness < pop[i].fitness

\* Chromosome::increase_age on every member.
IncreaseAge(pop) == [i \in DOMAIN pop |-> [pop[i] EXCEPT !.age = @ + 1]]

\* The main() test on the loaded population, accepting one that is larger.
CompatibleAtLeast(v) == NUM_POPULATION_TO_KEEP <= Len(v)

\* The main() test on the loaded population.
Compatible(v) == ~(NUM_POPULATION_TO_KEEP # Len(v))

\* A file written with std::ofstream: the name's content is replaced.
WriteFile(fs, name, content) ==
  { f \in fs : f[1] # name } \cup { << name, content >> }

\* make_unique<Population>(), make_unique<Offspring>(): default chromosomes.
DefaultChromosome == Chromosome([k \in 1..GeneCount |-> 0])

\* ------------------------------------------------------------------ Init
\* No Job is being driven directly.
JobIdle == the_job = NewJob(CHOOSE e \in ScenarioEntries : TRUE)
           /\ pend_calls = << >> /\ update_time = -1

\* No worker thread is running.
Workers == 1..NumWorkers

IdsIdle ==
  /\ worker_pc = [w \in Workers |-> "idle"]
  /\ worker_id = [w \in Workers |-> 0]
  /\ worker_events = [w \in Workers |-> {}]

\* No GA driver is running.
GAStart ==
  /\ ga_pc = "start"
  /\ population = [i \in 1..NUM_POPULATION_TO_KEEP |-> DefaultChromosome]
  /\ offspring = [i \in 1..NUM_OFFSPRING |-> DefaultChromosome]
  /\ mutants = << >>
  /\ current_best = 0
  /\ iter = 0
  /\ output_buffer = << >>
  /\ console = << >>
  /\ exit_code = -1
  /\ files = {}

\* The --population option is not given.
NoPopulationFile == [given |-> FALSE, chromosomes |-> << >>]

GAIdle == GAStart /\ num_iterations = 0 /\ population_file = NoPopulationFile

AuxIdle == JobIdle /\ IdsIdle /\ GAIdle

\* ClusterSimulation's constructor: one SCENARIO event per entry at its submit
\* time with priority 0, the two periodic events, a cluster of free hosts.
Init ==
  /\ scenario \in Scenarios
  /\ \E c \in Clusters : hosts = [i \in 1..Len(c) |-> NewHost(c[i])]
  /\ current_time = scenario[1].submit_time
  /\ events =
       { EventItem(j - 1, scenario[j].submit_time, 0, "SCENARIO", j) :
           j \in 1..Len(scenario) }
       \cup { EventItem(Len(scenario), current_time + LOGGING_FREQUENCY, 0, "LOG", 0),
              EventItem(Len(scenario) + 1, current_time + COUNTING_FREQUENCY, 0, "LOG", 0) }
  /\ id_gen_ = Len(scenario) + 2
  /\ popped = NoEvent
  /\ next_dispatch_reserved = FALSE
  /\ latest_cluster_version_ = 0
  /\ cluster_version = InitialClusterVersion
  /\ scenario_count = Len(scenario)
  /\ jobs = [j \in 1..Len(scenario) |-> NewJob(scenario[j])]
  /\ pending = << >>
  /\ num_submitted_jobs_ = 0
  /\ num_successful_jobs_ = 0
  /\ num_failed_jobs_ = 0
  /\ num_pending_jobs_ = 0
  /\ num_dispatched_slots = 0
  /\ using_slot_record_ = {}
  /\ pending_record_ = << >>
  /\ terminated = FALSE
  /\ api_calls = 0
  /\ AuxIdle

\* ------------------------------------------------------------------- run
\* The engine state once run() has taken event e off the queue.
Popped(e) == [EngineState EXCEPT !.events = events \ {e}]

\* One iteration of run(): pop, set the clock, execute the action.
RunStep(e, S) ==
  /\ ~terminated
  /\ e.time <= MaxTime
  /\ current_time' = e.time
  /\ popped' = e
  /\ Install(S)
  /\ UNCHANGED << scenario, terminated, api_calls >>
  /\ UNCHANGED aux_vars

StepScenario ==
  \E e \in Top(events) :
    /\ e.type = "SCENARIO"
    /\ RunStep(e, ScenarioAction(Popped(e), e.time, e.job))

StepDispatch ==
  \E e \in Top(events) :
    /\ e.type = "DISPATCH"
    /\ RunStep(e, Dispatcher(Popped(e), e.time))

StepJobFinished ==
  \E e \in Top(events) :
    /\ e.type = "JOB_FINISHED"
    /\ RunStep(e, JobFinishedAction(Popped(e), e.time, e.job))

StepLog ==
  \E e \in Top(events) :
    /\ e.type = "LOG"
    /\ RunStep(e, LogAction(Popped(e), e.time, LOGGING_FREQUENCY))

\* run() ends the simulation.
RunCondition ==
  events = {} /\ num_pending_jobs_ = 0 /\ scenario_count = 0

Terminate ==
  /\ ~terminated
  /\ RunCondition
  /\ terminated' = TRUE
  /\ UNCHANGED << current_time, events, id_gen_, popped, next_dispatch_reserved,
                  latest_cluster_version_, cluster_version, hosts, scenario,
                  scenario_count, jobs, pending, num_submitted_jobs_,
                  num_successful_jobs_, num_failed_jobs_, num_pending_jobs_,
                  num_dispatched_slots, using_slot_record_, pending_record_,
                  api_calls >>
  /\ UNCHANGED aux_vars

Next ==
  \/ StepScenario
  \/ StepDispatch
  \/ StepJobFinished
  \/ StepLog
  \/ Terminate

Spec == Init /\ [][Next]_vars

\* ------------------------------------------- the event queue's public API
\* after_delay, add_delay and erase_event are public: the second
\* specification lets a caller use them between two events of run(), with
\* any id (issued, popped, erased or never issued) and any delay of Delays.
EventKinds == { << 2, "LOG" >> }

ApiCall ==
  /\ ~terminated
  /\ api_calls < MaxApiCalls
  /\ api_calls' = api_calls + 1
  /\ UNCHANGED << current_time, popped >>
  /\ UNCHANGED engine_vars
  /\ UNCHANGED aux_vars

CallAfterDelay ==
  /\ ApiCall
  /\ \E d \in Delays, k \in EventKinds :
       LET r == AfterDelay(events, id_gen_, current_time, d, k[1], k[2], 0)
       IN events' = r.events /\ id_gen_' = r.id_gen

CallAddDelay ==
  /\ ApiCall
  /\ \E id \in 0..id_gen_, d \in Delays : events' = AddDelay(events, id, d)
  /\ UNCHANGED id_gen_

CallEraseEvent ==
  /\ ApiCall
  /\ \E id \in 0..id_gen_ : events' = EraseEvent(events, id)
  /\ UNCHANGED id_gen_

InitQ ==
  /\ Init
  /\ Len(scenario) <= 2
  /\ scenario[1].submit_time = 0
  /\ Len(hosts) = 1 /\ hosts[1].total_slots = 1
  /\ \A j \in 1..Len(scenario) :
       /\ scenario[j].mem_required = 1 /\ scenario[j].slot_required = 1
       /\ scenario[j].cpu_time = 5000

NextQ ==
  \/ StepScenario
  \/ StepDispatch
  \/ StepJobFinished
  \/ StepLog
  \/ Terminate
  \/ CallAfterDelay
  \/ CallAddDelay
  \/ CallEraseEvent

SpecQ == InitQ /\ [][NextQ]_vars

\* ------------------------------------------------ a Job driven directly
\* No engine is running.
SimIdle ==
  /\ current_time = 0
  /\ events = {}
  /\ id_gen_ = 0
  /\ popped = NoEvent
  /\ next_dispatch_reserved = FALSE
  /\ latest_cluster_version_ = 0
  /\ cluster_version = InitialClusterVersion
  /\ hosts = << >>
  /\ scenario = << >>
  /\ scenario_count = 0
  /\ jobs = << >>
  /\ pending = << >>
  /\ num_submitted_jobs_ = 0
  /\ num_successful_jobs_ = 0
  /\ num_failed_jobs_ = 0
  /\ num_pending_jobs_ = 0
  /\ num_dispatched_slots = 0
  /\ using_slot_record_ = {}
  /\ pending_record_ = << >>
  /\ terminated = FALSE
  /\ api_calls = 0

\* set_pending and update_total_pending_duration are public members of Job:
\* the third specification calls them on one freshly constructed Job in any
\* order, with any times of PendTimes.
InitJob ==
  /\ SimIdle
  /\ the_job \in { NewJob(e) : e \in ScenarioEntries }
  /\ pend_calls = << >>
  /\ update_time = -1
  /\ IdsIdle
  /\ GAIdle

CallSetPending ==
  /\ Len(pend_calls) < MaxPendCalls
  /\ \E t \in PendTimes :
       /\ the_job' = SetPending(the_job, t)
       /\ pend_calls' = Append(pend_calls, t)
  /\ update_time' = -1
  /\ UNCHANGED << sim_vars, ids_vars, ga_vars >>

CallUpdateTotalPendingDuration ==
  /\ pend_calls # << >>
  /\ \E c \in PendTimes :
       /\ the_job' = UpdateTotalPendingDuration(the_job, c)
       /\ update_time' = c
  /\ UNCHANGED << pend_calls >>
  /\ UNCHANGED << sim_vars, ids_vars, ga_vars >>

NextJob ==
  \/ CallSetPending
  \/ CallUpdateTotalPendingDuration

SpecJob == InitJob /\ [][NextJob]_vars

\* ------------------------------------- engines on the GA's worker threads
\* Each worker runs its own engine; every after_delay constructs an EventItem
\* whose member initialiser `id = id_gen_++` reads and writes the static
\* counter without synchronisation.  The unsynchronised increment is a load
\* followed by a store, and the steps of different workers interleave freely.
InitIds ==
  /\ SimIdle
  /\ JobIdle
  /\ IdsIdle
  /\ GAIdle

\* EventItem's member initialiser, first half: load id_gen_.
LoadIdGen(w) ==
  /\ worker_pc[w] = "idle"
  /\ Cardinality(worker_events[w]) < MaxEventsPerEngine
  /\ worker_id' = [worker_id EXCEPT ![w] = id_gen_]
  /\ worker_pc' = [worker_pc EXCEPT ![w] = "loaded"]
  /\ UNCHANGED << id_gen_, worker_events >>

\* Second half: store the incremented value, and after_delay pushes the
\* event, which carries the loaded value as its id, on the engine's queue.
\* The engine's clock is taken to advance by one dispatch period per event.
StoreIdGen(w) ==
  /\ worker_pc[w] = "loaded"
  /\ LET now == DISPATCH_FREQUENCY * Cardinality(worker_events[w])
         r   == AfterDelay(worker_events[w], worker_id[w], now,
                           DISPATCH_FREQUENCY, 0, "LOG", 0)
     IN /\ id_gen_' = r.id_gen
        /\ worker_events' = [worker_events EXCEPT ![w] = r.events]
  /\ worker_pc' = [worker_pc EXCEPT ![w] = "idle"]
  /\ UNCHANGED worker_id

WorkerLoad ==
  /\ \E w \in Workers : LoadIdGen(w)
  /\ UNCHANGED << current_time, events, popped, api_calls >>
  /\ UNCHANGED << engine_vars, job_vars, ga_vars >>

WorkerStore ==
  /\ \E w \in Workers : StoreIdGen(w)
  /\ UNCHANGED << current_time, events, popped, api_calls >>
  /\ UNCHANGED << engine_vars, job_vars, ga_vars >>

NextIds ==
  \/ WorkerLoad
  \/ WorkerStore

SpecIds == InitIds /\ [][NextIds]_vars

\* ---------------------------------------------------------- the GA driver
\* Population files of one chromosome fewer than, as many as and one more
\* than NUM_POPULATION_TO_KEEP.
PopulationFiles ==
  UNION { [1..n -> { Chromosome(g) : g \in Genes }] :
            n \in (NUM_POPULATION_TO_KEEP - 1)..(NUM_POPULATION_TO_KEEP + 1) }

\* What current_best points to when it is dereferenced while indeterminate:
\* memory that holds no chromosome of the population.
GarbageChromosome == Chromosome(<< >>)

InitGA ==
  /\ SimIdle
  /\ JobIdle
  /\ IdsIdle
  /\ GAStart
  /\ num_iterations \in 0..MaxIterations
  /\ population_file \in
       {NoPopulationFile}
       \cup { [given |-> TRUE, chromosomes |-> v] : v \in PopulationFiles }

\* main, lines 46-54: the loaded population has the wrong size.
LoadIncompatible ==
  /\ ga_pc = "start"
  /\ population_file.given
  /\ ~Compatible(population_file.chromosomes)
  /\ console' = Append(console, "Incompatible population.")
  /\ exit_code' = 0
  /\ ga_pc' = "exited"
  /\ UNCHANGED << num_iterations, population_file, population, offspring,
                  mutants, current_best, iter, output_buffer, files >>
  /\ UNCHANGED << sim_vars, job_vars, ids_vars >>

\* main, lines 46-60: the loaded population is copied, evaluated, and the
\* first offspring are generated and evaluated.
LoadPopulation ==
  /\ ga_pc = "start"
  /\ population_file.given
  /\ Compatible(population_file.chromosomes)
  /\ LET loaded == [i \in 1..NUM_POPULATION_TO_KEEP |->
                      population_file.chromosomes[i]]
         pop == CalculateFitnessParallel(loaded)
     IN \E off \in GenerateOffspring(pop) :
          /\ population' = pop
          /\ offspring' = CalculateFitnessParallel(off)
  /\ ga_pc' = "initialised"
  /\ UNCHANGED << num_iterations, population_file, mutants, current_best,
                  iter, output_buffer, console, exit_code, files >>
  /\ UNCHANGED << sim_vars, job_vars, ids_vars >>

\* main, lines 61-63: generate_initial_population makes a random population
\* and its first offspring, all evaluated.
GenerateInitialPopulation ==
  /\ ga_pc = "start"
  /\ ~population_file.given
  /\ \E pop \in [1..NUM_POPULATION_TO_KEEP ->
                    { Chromosome(g) : g \in Genes }] :
       \E off \in GenerateOffspring(pop) :
         /\ population' = CalculateFitnessParallel(pop)
         /\ offspring' = CalculateFitnessParallel(off)
  /\ ga_pc' = "initialised"
  /\ UNCHANGED << num_iterations, population_file, mutants, current_best,
                  iter, output_buffer, console, exit_code, files >>
  /\ UNCHANGED << sim_vars, job_vars, ids_vars >>

\* main, lines 67-70: the first selection, and the population saved.
InitialSelect ==
  /\ ga_pc = "initialised"
  /\ population' = SelectSurvivors(population, offspring, mutants)
  /\ files' = WriteFile(files, "last_population.bin", population')
  /\ ga_pc' = "loop"
  /\ UNCHANGED << num_iterations, population_file, offspring, mutants,
                  current_best, iter, output_buffer, console, exit_code >>
  /\ UNCHANGED << sim_vars, job_vars, ids_vars >>

\* main, lines 72-115: one iteration of the loop (CONSOLE_OUTPUT off).
Epoch ==
  /\ ga_pc = "loop"
  /\ iter < num_iterations
  /\ \E off0 \in GenerateOffspring(population) :
       LET off == CalculateFitnessParallel(off0)
       IN \E mut0 \in GetMutants(population, off) :
            LET mut       == CalculateFitnessParallel(mut0)
                survivors == SelectSurvivors(population, off, mut)
                best      == MaxElement(survivors)
                aged      == IncreaseAge(survivors)
            IN /\ offspring' = off
               /\ mutants' = << >>
               /\ population' = aged
               /\ current_best' = best
               /\ output_buffer' =
                    Append(output_buffer, << iter, survivors[best].fitness >>)
               /\ files' = IF iter % SAVE_INTERVAL = 0
                           THEN WriteFile(files, "last_population.bin", aged)
                           ELSE files
  /\ console' = Append(console, "Epoch " \o ToString(iter + 1))
  /\ iter' = iter + 1
  /\ UNCHANGED << ga_pc, num_iterations, population_file, exit_code >>
  /\ UNCHANGED << sim_vars, job_vars, ids_vars >>

\* The output files of lines 120-131, with chromosome c saved as the best.
SaveOutputFiles(c) ==
  WriteFile(
    WriteFile(
      WriteFile(
        WriteFile(files, "best_chromosome.bin", c),
        "last_population.bin", population),
      "records.csv", output_buffer),
    "summary.txt", "summary")

\* main, lines 117-132: after the loop.  current_best is dereferenced; while
\* it is indeterminate the read may fault (target -1), reach memory that
\* holds no chromosome of the population (target 0) or happen to reach one of
\* its members.
Finish ==
  /\ ga_pc = "loop"
  /\ ~(iter < num_iterations)
  /\ \E target \in -1..NUM_POPULATION_TO_KEEP :
       /\ current_best # 0 => target = current_best
       /\ IF target = -1
          THEN ga_pc' = "crashed" /\ exit_code' = 139 /\ files' = files
          ELSE /\ ga_pc' = "done"
               /\ exit_code' = 0
               /\ files' = SaveOutputFiles(IF target = 0 THEN GarbageChromosome
                                           ELSE population[target])
  /\ UNCHANGED << num_iterations, population_file, population, offspring,
                  mutants, current_best, iter, output_buffer, console >>
  /\ UNCHANGED << sim_vars, job_vars, ids_vars >>

NextGA ==
  \/ LoadIncompatible
  \/ LoadPopulation
  \/ GenerateInitialPopulation
  \/ InitialSelect
  \/ Epoch
  \/ Finish

SpecGA == InitGA /\ [][NextGA]_vars

\* ---------------------------------------------------------------- claims
\* A step of run() took an event off the queue.
PopStep == popped' # popped

\* C1: every pop returns an event of minimum time among the events then in
\* the queue and, among those of that time, one of the highest priority; the
\* times of successively popped events never decrease.
C1_PopOrder ==
  [][PopStep =>
       /\ \A x \in events :
            /\ popped'.time <= x.time
            /\ (x.time = popped'.time => x.priority <= popped'.priority)
       /\ (popped # NoEvent => popped.time <= popped'.time)]_vars

\* C2: current_time never decreases from one executed event to the next,
\* whatever the event actions schedule with after_delay or move with
\* add_delay.
C2_TimeMonotone == [][current_time <= current_time']_vars

\* C2 witness: run() has executed a JOB_FINISHED event that add_delay had
\* moved away from start_time + run time, and the clock stands at its time.
C2_Witness ==
  /\ popped.type = "JOB_FINISHED"
  /\ popped.time # jobs[popped.job].start_time + ExpectedRunTime(jobs[popped.job])
  /\ current_time = popped.time
  /\ current_time > scenario[1].submit_time

\* Sum of f[j] over the job indices in set js.
RECURSIVE SumOver(_, _)
SumOver(f, js) ==
  IF js = {} THEN 0
  ELSE LET j == CHOOSE k \in js : TRUE IN f[j] + SumOver(f, js \ {j})

JobIds == DOMAIN jobs
RunningOn(h) == { j \in JobIds : jobs[j].state = "RUN" /\ jobs[j].run_host = h }
InState(st) == { j \in JobIds : jobs[j].state = st }
DispatchEvents(ev) == { e \in ev : e.type = "DISPATCH" }

\* C3: between event actions, for every host, free_slots plus the slots of
\* the RUN jobs assigned to it equals total_slots, likewise for memory, and
\* so 0 <= free <= total.
C3_ResourceConservation ==
  \A h \in 1..Len(hosts) :
    /\ hosts[h].free_slots
         + SumOver([j \in JobIds |-> jobs[j].slot_required], RunningOn(h))
       = hosts[h].total_slots
    /\ hosts[h].free_mem
         + SumOver([j \in JobIds |-> jobs[j].mem_required], RunningOn(h))
       = hosts[h].total_mem
    /\ 0 <= hosts[h].free_slots /\ hosts[h].free_slots <= hosts[h].total_slots
    /\ 0 <= hosts[h].free_mem /\ hosts[h].free_mem <= hosts[h].total_mem

\* C3 witness: a host that has released one job's slots runs another job.
C3_Witness ==
  \E h \in 1..Len(hosts) :
    /\ RunningOn(h) # {}
    /\ \E j \in InState("DONE") : jobs[j].run_host = h
    /\ hosts[h].free_slots < hosts[h].total_slots

\* C4: a job's state changes only along WAIT -> PEND -> RUN -> DONE or EXIT
\* (EXIT is entered from PEND by a job that cannot be run); no job goes back
\* to an earlier state, and DONE and EXIT are never left.
StateEdges ==
  { << "WAIT", "PEND" >>, << "PEND", "RUN" >>, << "PEND", "EXIT" >>,
    << "RUN", "DONE" >>, << "RUN", "EXIT" >> }

C4_StateForward ==
  [][\A j \in JobIds :
       \/ jobs'[j].state = jobs[j].state
       \/ << jobs[j].state, jobs'[j].state >> \in StateEdges]_vars

\* C4 witness: one job has gone all the way to DONE, another to EXIT.
C4_Witness == InState("DONE") # {} /\ InState("EXIT") # {}

\* C5: run() terminates: once the event queue has drained, num_pending_jobs_
\* is 0 and the scenario is exhausted, which is run()'s condition to stop.
C5_RunTerminates == (events = {}) => RunCondition

\* C6: reserve_dispatch_event is idempotent.  Called with the flag set it
\* changes nothing; called with the flag clear it adds exactly one DISPATCH
\* event at current_time + DISPATCH_FREQUENCY with priority 1 and sets the
\* flag; a second call right after the first changes nothing more.
C6_ReserveIdempotent ==
  LET S  == EngineState
      R1 == ReserveDispatchEvent(S, current_time)
      R2 == ReserveDispatchEvent(R1, current_time)
  IN /\ R2 = R1
     /\ R1.reserved
     /\ S.reserved => R1 = S
     /\ ~S.reserved =>
          /\ R1.events \ S.events =
               { EventItem(S.id_gen, current_time + DISPATCH_FREQUENCY, 1,
                           "DISPATCH", 0) }
          /\ S.events \subseteq R1.events
          /\ Cardinality(R1.events) = Cardinality(S.events) + 1
          /\ [R1 EXCEPT !.events = S.events, !.id_gen = S.id_gen,
                        !.reserved = FALSE] = S

\* C6 witness: a JOB_FINISHED action has just called reserve_dispatch_event
\* while the flag was set: the one DISPATCH event queued is older than the
\* call, and the clock is past 0.
C6_Witness ==
  /\ popped.type = "JOB_FINISHED"
  /\ current_time > 0
  /\ next_dispatch_reserved
  /\ \E e \in events :
       /\ DispatchEvents(events) = {e}
       /\ e.time < current_time + DISPATCH_FREQUENCY

\* The scenario has one job, and some host is eligible for it.
SingleJobFits ==
  /\ Len(scenario) = 1
  /\ EligibleHosts(hosts, jobs[1]) # {}
  /\ ExpectedRunTime(jobs[1]) > 0

TwoJobsOneSlot ==
  /\ Len(hosts) = 1 /\ hosts[1].total_slots = 1
  /\ Len(scenario) = 2
  /\ \A j \in 1..2 :
       /\ scenario[j].submit_time = 0 /\ scenario[j].cpu_time = 5000
       /\ scenario[j].slot_required = 1 /\ scenario[j].mem_required = 1

\* C8: a JOB_FINISHED event due at the time of a DISPATCH event is executed
\* before it, so with one 1-slot host and two jobs of cpu=5000 submitted at 0
\* one job runs 1000..6000 and the other 6000..11000.
C8_FinishBeforeDispatch ==
  /\ popped.type = "DISPATCH" =>
       \A e \in events : e.type = "JOB_FINISHED" => e.time # popped.time
  /\ TwoJobsOneSlot =>
       \A j \in JobIds :
         /\ jobs[j].state \in {"RUN", "DONE"} => jobs[j].start_time \in {1000, 6000}
         /\ jobs[j].state = "DONE" => jobs[j].finish_time \in {6000, 11000}

\* The scenario is exhausted, nothing is pending, one job runs, and no other
\* job has finished since it started.
OneJobRunning ==
  /\ scenario_count = 0
  /\ pending = << >>
  /\ \E r \in InState("RUN") :
       /\ InState("RUN") = {r}
       /\ \A d \in InState("DONE") : jobs[d].finish_time < jobs[r].start_time

\* Every job of the scenario has been submitted and has ended.
AllEnded ==
  /\ scenario_count = 0
  /\ \A j \in JobIds : jobs[j].state \in {"DONE", "EXIT"}

Unsatisfiable(j) == EligibleHosts(hosts, jobs[j]) = {}

\* C10 as claimed: a pending job whose requirement exceeds every host's
\* capacity is in state EXIT after the first Dispatcher pass that follows its
\* submission.
C10_ExitAtFirstPass ==
  popped.type = "DISPATCH" =>
    \A j \in JobIds :
      Unsatisfiable(j) /\ jobs[j].state # "WAIT" => jobs[j].state = "EXIT"

\* A step of run() that executes a Dispatcher pass which calls dispatch().
DispatchingPass ==
  /\ PopStep
  /\ popped'.type = "DISPATCH"
  /\ cluster_version # latest_cluster_version_

\* C10 as amended: a pending job whose requirement exceeds every host's
\* capacity goes to EXIT at the first Dispatcher pass after its submission
\* that calls the queues' dispatch(); num_failed_jobs_ counts it exactly once,
\* it holds no host resources, its start and finish times stay unset and it
\* is no longer among the pending jobs.
C10_ExitAtDispatch ==
  [][/\ DispatchingPass =>
          \A j \in JobIds :
            Unsatisfiable(j) /\ jobs[j].state = "PEND" =>
              /\ jobs'[j].state = "EXIT"
              /\ \A k \in 1..Len(pending') : pending'[k] # j
     /\ num_failed_jobs_' = Cardinality({ j \in JobIds : jobs'[j].state = "EXIT" })
     /\ \A j \in JobIds :
          jobs'[j].state = "EXIT" =>
            /\ jobs'[j].finish_time = 0 /\ jobs'[j].start_time = 0
            /\ jobs'[j].run_host = 0
            /\ \A k \in 1..Len(pending') : pending'[k] # j
     /\ DispatchingPass /\ pending' # << >> =>
          num_pending_jobs_' = Cardinality({ j \in JobIds : jobs'[j].state = "PEND" })
     /\ \A h \in 1..Len(hosts) :
          (\A j \in JobIds : jobs'[j].state = jobs[j].state
                               \/ jobs'[j].state = "EXIT") =>
            hosts'[h] = hosts[h]]_vars

\* C10 witness: a job asking for more slots than any host has is EXIT and
\* counted once, while another job of the scenario is running.
C10_Witness ==
  \E j \in InState("EXIT") :
    /\ Unsatisfiable(j)
    /\ num_failed_jobs_ = 1
    /\ jobs[j].finish_time = 0
    /\ InState("RUN") # {}

\* C11: after every call of a sequence set_pending(t1), set_pending(t2), ...
\* on one job, with any times >= 0 (0 included), pend_start_time_ is t1, and
\* update_total_pending_duration(c) then leaves c - t1 in
\* total_pending_duration.
C11_FirstPendTime ==
  pend_calls # << >> =>
    /\ the_job.pend_start_time_ = pend_calls[1]
    /\ update_time # -1 =>
         the_job.total_pending_duration = update_time - pend_calls[1]

\* C12: within one engine no two EventItems carry the same id, also when
\* several engines create events at the same time on worker threads, so that
\* an id names a single event of the engine's queue.
C12_UniqueIds ==
  \A w \in Workers :
    \A a, b \in worker_events[w] : a.id = b.id => a = b

\* Greatest fitness among the members of a population.
MaxFitness(pop) == pop[MaxElement(pop)].fitness

\* C13: the best fitness of the population never decreases from one
\* generation to the next (the population after generation 0 is the one the
\* first select_survivors leaves), the per-epoch record of best fitness is
\* non-decreasing, and the population keeps NUM_POPULATION_TO_KEEP members.
C13_MonotoneBest ==
  [][/\ Len(population') = NUM_POPULATION_TO_KEEP
     /\ iter' = iter + 1 =>
          /\ MaxFitness(population') >= MaxFitness(population)
          /\ output_buffer'[iter'][2] = MaxFitness(population')
          /\ \A k \in 1..Len(output_buffer) :
               output_buffer[k][2] <= output_buffer'[iter'][2]]_vars

\* C13 witness: in the second generation a chromosome born in it became the
\* best of the population, above a member that has survived both
\* generations.
C13_Witness ==
  /\ iter = 2
  /\ output_buffer[1][2] < output_buffer[2][2]
  /\ population[current_best].age = 1
  /\ \E i \in 1..Len(population) :
       /\ population[i].age = 2
       /\ population[i].fitness < population[current_best].fitness

\* C14: when --population names a file whose population size differs from
\* NUM_POPULATION_TO_KEEP the driver prints "Incompatible population." and
\* exits with code 0 before any fitness is evaluated, any offspring is
\* generated or any file is written; when the size matches, the loaded
\* chromosomes are the initial population, their fitness and the first
\* offspring's are computed, and the driver goes on.
C14_IncompatiblePopulation ==
  LET v == population_file.chromosomes
  IN population_file.given =>
       /\ Len(v) # NUM_POPULATION_TO_KEEP /\ ga_pc # "start" =>
            /\ ga_pc = "exited"
            /\ console = << "Incompatible population." >>
            /\ exit_code = 0
            /\ files = {}
            /\ \A i \in 1..Len(population) : population[i] = DefaultChromosome
            /\ \A i \in 1..Len(offspring) : offspring[i] = DefaultChromosome
            /\ mutants = << >> /\ output_buffer = << >> /\ iter = 0
       /\ Len(v) = NUM_POPULATION_TO_KEEP =>
            /\ ga_pc # "exited"
            /\ ga_pc = "initialised" =>
                 /\ Len(population) = Len(v)
                 /\ \A i \in 1..Len(v) :
                      /\ population[i].genes = v[i].genes
                      /\ population[i].age = v[i].age
                      /\ population[i].fitness = Objective(v[i].genes, GeneCount)
                 /\ \A i \in 1..Len(offspring) :
                      /\ offspring[i].fitness =
                           Objective(offspring[i].genes, GeneCount)
                      /\ \E a, b \in 1..Len(population) :
                           \A k \in 1..GeneCount :
                             offspring[i].genes[k] \in
                               {population[a].genes[k], population[b].genes[k]}
                 /\ console = << >> /\ exit_code = -1 /\ files = {}

\* C14 witness: a population file of one chromosome too many has made the
\* driver exit with code 0 after the message.
C14_Witness ==
  /\ population_file.given
  /\ Len(population_file.chromosomes) = NUM_POPULATION_TO_KEEP + 1
  /\ ga_pc = "exited"
  /\ exit_code = 0
  /\ console = << "Incompatible population." >>

\* A step of run() that executes a Dispatcher pass which finds the cluster
\* version equal to the one it observed last.
SkippedPass ==
  /\ PopStep
  /\ popped'.type = "DISPATCH"
  /\ cluster_version = latest_cluster_version_

\* C15: a Dispatcher pass that finds the cluster version unchanged calls no
\* dispatch(): hosts, jobs, the queue's pending jobs and the counters stay as
\* they are and nothing is appended to using_slot_record_ or
\* pending_record_.  If jobs are pending or the scenario is not exhausted it
\* schedules exactly one DISPATCH event at current_time + DISPATCH_FREQUENCY;
\* otherwise it schedules nothing and clears next_dispatch_reserved.
C15_SkippedPass ==
  [][SkippedPass =>
       /\ hosts' = hosts /\ jobs' = jobs /\ pending' = pending
       /\ cluster_version' = cluster_version
       /\ latest_cluster_version_' = latest_cluster_version_
       /\ using_slot_record_' = using_slot_record_
       /\ pending_record_' = pending_record_
       /\ << num_submitted_jobs_', num_successful_jobs_', num_failed_jobs_',
             num_pending_jobs_', num_dispatched_slots', scenario_count' >>
          = << num_submitted_jobs_, num_successful_jobs_, num_failed_jobs_,
               num_pending_jobs_, num_dispatched_slots, scenario_count >>
       /\ IF pending # << >> \/ scenario_count # 0
          THEN /\ events' =
                    (events \ {popped'})
                    \cup { EventItem(id_gen_, popped'.time + DISPATCH_FREQUENCY,
                                     1, "DISPATCH", 0) }
               /\ Cardinality(events') = Cardinality(events)
               /\ current_time' = popped'.time
               /\ next_dispatch_reserved' = next_dispatch_reserved
          ELSE /\ events' = events \ {popped'}
               /\ ~next_dispatch_reserved']_vars

\* C15 witness: the pass just executed found the cluster unchanged (it left
\* no record for the current time, while an earlier pass has), a job runs
\* and another waits, and the pass has scheduled the next one.
C15_Witness ==
  /\ popped.type = "DISPATCH"
  /\ pending_record_ # << >>
  /\ \A k \in 1..Len(pending_record_) : pending_record_[k][1] < current_time
  /\ cluster_version = latest_cluster_version_
  /\ InState("RUN") # {} /\ pending # << >>
  /\ DispatchEvents(events)
       = { EventItem(id_gen_ - 1, current_time + DISPATCH_FREQUENCY, 1,
                     "DISPATCH", 0) }

\* The ids that name no event of the queue: popped, erased or not issued yet.
AbsentIds == { id \in 0..(id_gen_ + 1) : \A e \in events : e.id # id }

\* C16: erase_event(id) and add_delay(id, d) with an id that is not in the
\* event queue (never issued, already popped, already erased) leave the
\* queue as it is: the same events with the same times, and so popped in
\* the same order.
C16_AbsentIdNoOp ==
  \A id \in AbsentIds :
    /\ EraseEvent(events, id) = events
    /\ \A d \in Delays : AddDelay(events, id, d) = events

\* C16 witness: a running job's JOB_FINISHED event has been erased and other
\* events have been popped, so the queue is not empty and ids of all three
\* kinds are absent from it.
C16_Witness ==
  /\ events # {}
  /\ popped # NoEvent
  /\ popped.id \in AbsentIds
  /\ id_gen_ \in AbsentIds
  /\ \E j \in InState("RUN") :
       \A e \in events : ~(e.type = "JOB_FINISHED" /\ e.job = j)

\* C17: between two event actions the event queue holds at most one DISPATCH
\* event, and it holds one exactly when next_dispatch_reserved is true,
\* whatever the order of scenario submissions, job completions and
\* Dispatcher passes.
C17_OneDispatchEvent ==
  /\ Cardinality(DispatchEvents(events)) <= 1
  /\ next_dispatch_reserved <=> DispatchEvents(events) # {}

\* C17 witness: a submission and a completion have both called
\* reserve_dispatch_event since the last Dispatcher pass, which had cleared
\* the flag, and one DISPATCH event is queued.
C17_Witness ==
  /\ popped.type \in {"SCENARIO", "JOB_FINISHED"}
  /\ InState("DONE") # {} /\ InState("PEND") # {}
  /\ latest_cluster_version_ = 0
  /\ \E j \in InState("PEND"), d \in InState("DONE") :
       /\ jobs[j].pend_start_time_ > 0
       /\ jobs[d].finish_time <= current_time
       /\ jobs[d].finish_time + DISPATCH_FREQUENCY > current_time
       /\ jobs[j].pend_start_time_ + DISPATCH_FREQUENCY > current_time
  /\ next_dispatch_reserved
  /\ Cardinality(DispatchEvents(events)) = 1

\* C18: after every Dispatcher pass that runs dispatch(), num_pending_jobs_
\* is the number of jobs pending in the queues, and the entry the pass
\* appends to pending_record_ carries the current time and that number, also
\* in the pass that dispatches the last pending jobs.
C18_PendingRecordExact ==
  [][DispatchingPass =>
       /\ num_pending_jobs_' = Len(pending')
       /\ pending_record_' =
            Append(pending_record_, << popped'.time, Len(pending') >>)]_vars

\* C19: when a Dispatcher pass clears next_dispatch_reserved, in either
\* branch, no job is left PEND; when run() has reached its termination
\* condition no job is PEND, every job of the scenario has been submitted
\* and is DONE or EXIT, and num_submitted_jobs_ = num_successful_jobs_ +
\* num_failed_jobs_.
C19_NothingLeftPending ==
  [][/\ ( /\ PopStep /\ popped'.type = "DISPATCH"
          /\ next_dispatch_reserved /\ ~next_dispatch_reserved' ) =>
          /\ pending' = << >>
          /\ \A j \in JobIds : jobs'[j].state # "PEND"
     /\ ( (events' = {} /\ num_pending_jobs_' = 0 /\ scenario_count' = 0)
          \/ terminated' ) =>
          /\ pending' = << >>
          /\ \A j \in JobIds : jobs'[j].state \in {"DONE", "EXIT"}
          /\ num_submitted_jobs_' = Len(scenario)
          /\ num_submitted_jobs_' = num_successful_jobs_' + num_failed_jobs_'
          /\ num_successful_jobs_' =
               Cardinality({ j \in JobIds : jobs'[j].state = "DONE" })]_vars

\* C19 witness: run() has ended a scenario of which one job is DONE and one
\* EXIT, the last Dispatcher pass having cleared the flag.
C19_Witness ==
  /\ terminated
  /\ InState("DONE") # {} /\ InState("EXIT") # {}
  /\ ~next_dispatch_reserved
  /\ num_submitted_jobs_ = num_successful_jobs_ + num_failed_jobs_
  /\ num_submitted_jobs_ >= 2

\* C20: for every configured NUM_ITERATIONS, main ends by saving as
\* best_chromosome.bin a member of the final population whose fitness is the
\* greatest of that population.
C20_BestSaved ==
  /\ ga_pc # "crashed"
  /\ ga_pc = "done" =>
       \E f \in files :
         /\ f[1] = "best_chromosome.bin"
         /\ \E i \in 1..Len(population) : population[i] = f[2]
         /\ f[2].fitness = MaxFitness(population)

====
